---- MODULE Spec2Model ----
(***************************************************************************)
(* Model of the resource-provisioning scripts of aws-genai-developer:      *)
(*   - the two status-poll loops of extrachallenge_knowledgebase_create.py *)
(*     (poll_knowledge_base_active, poll_data_ingestion_status);           *)
(*   - the find-or-create steps of the main() functions of                 *)
(*     extrachallenge_knowledgebase_create.py (knowledge base, data        *)
(*     source) and extrachallenge_guardrail.py (guardrail).                *)
(*   - a caller of a poll function that asks it to stop or polls again;    *)
(*   - main() of extrachallenge_knowledgebase_create.py, Parts 2 to 4;     *)
(*   - two poll invocations running in two threads;                        *)
(*   - delete_vec_bucket of delete_resources.py.                           *)
(* One behaviour is one run of one of these programs (variable prog).      *)
(* Time is a natural number of ticks.                                      *)
(***************************************************************************)
EXTENDS Naturals, Sequences, FiniteSets

VARIABLES
    prog,           \* which program this behaviour runs: "poll", "ensure",
                    \* "caller", "main", "threads", "delete", "vec",
                    \* "invoke" or "getdoc"
    \* ---- a poll invocation -------------------------------------------
    kind,           \* "kb": poll_knowledge_base_active, "job": poll_data_ingestion_status
    poll_interval,  \* parameter poll_interval
    timeout,        \* parameter timeout
    results,        \* what the remote answers: results[i] is the answer of the
                    \* i-th status call, the last one repeated for ever
    now,            \* time.time()
    start_time,     \* local start_time
    pc,             \* "start", "call" (about to issue the status call),
                    \* "sleep" (about to time.sleep), "done"
    status,         \* local status: the status read last ("" before the first)
    latency,        \* time the last status call took
    calls,          \* status calls issued so far
    sleeps,         \* time.sleep calls made so far
    observed,       \* the statuses the status calls have returned, in order
    outcome,        \* <<how the invocation ended, status carried by the error>>
    handle,         \* the arguments that name the resource: <<kb_id>> or
                    \* <<kb_id, ds_id, job_id>>
    api_calls,      \* the remote calls issued so far: set of <<operation, handle>>
    log,            \* what print() has written, in order
    \* ---- find-or-create ----------------------------------------------
    site,           \* "kb", "ds" or "gr": which resource main() looks up
    remote,         \* the remote listing: sequence of resource summaries
    next_id,        \* the next id the remote platform issues
    externals,      \* resources another actor created during the runs
    epc,            \* "lookup", "create", "version", "end"
    cur,            \* the run in progress
    past,           \* the finished runs, oldest first
    \* ---- the other programs, one record each ------------------------
    caller,         \* a caller of a poll function: polls again, asks to cancel
    wf,             \* main() of extrachallenge_knowledgebase_create.py
    conc,           \* two poll invocations running in two threads
    del,            \* delete_vec_bucket of delete_resources.py
    vec,           \* main() of create_bucket_s3_vec.py
    invoker,       \* a call of process_document, evaluate_accuracy or evaluate_quality
    doc             \* a call of get_document of get_doc_from_s3_gp.py

pollVars == <<kind, poll_interval, timeout, results, now, start_time, pc, status,
              latency, calls, sleeps, observed, outcome, handle, api_calls, log>>
ensureVars == <<site, remote, next_id, externals, epc, cur, past>>
otherVars == <<caller, wf, conc, del, vec, invoker, doc>>
notPollVars == <<ensureVars, otherVars>>
vars == <<prog, pollVars, ensureVars, otherVars>>

----------------------------------------------------------------------------
(* Bounds of the model *)

MaxScript == 3
MaxInterval == 2
MaxTimeout == 5
MaxLatency == 1
MaxClock == 12
MaxRuns == 2
MaxExternal == 1
PageSize == 2
ScenarioTimeout == 10
CallerScript == 2
CallerTimeout == 2
MaxPolls == 2
ThreadTimeout == 2
ThreadDelay == 1
\* runs of create_bucket_s3_vec.py in a row
MaxVecRuns == 2
\* ingestion jobs a reused data source can have when main() starts one more
MaxJobs == 1

----------------------------------------------------------------------------
(* Status vocabulary and classification *)

\* A status call that raises (transport or authorisation failure) answers this
ClientError == "ClientError"

Statuses == {"CREATING", "ACTIVE", "COMPLETE", "FAILED", "STOPPED", "DELETING"}

Answers == Statuses \cup {ClientError}

\* if status == "ACTIVE" (knowledge base) / if status == "COMPLETE" (ingestion job)
SuccessStatus(k) == IF k = "kb" THEN "ACTIVE" ELSE "COMPLETE"

\* elif status in ("FAILED", "STOPPED")
FailureStatuses == {"FAILED", "STOPPED"}

Classify_OnlyFailed(k, s) ==
    IF s = SuccessStatus(k) THEN "Succeeded"
    ELSE IF s = "FAILED" THEN "Failed"
    ELSE "InProgress"

Classify_NoSuccess(k, s) ==
    IF s \in FailureStatuses THEN "Failed" ELSE "InProgress"

Classify_AnySuccess(k, s) ==
    IF s \in {"ACTIVE", "COMPLETE"} THEN "Succeeded"
    ELSE IF s \in FailureStatuses THEN "Failed"
    ELSE "InProgress"

\* the if / elif / else chain of both loops
Classify(k, s) ==
    IF s = SuccessStatus(k) THEN "Succeeded"
    ELSE IF s \in FailureStatuses THEN "Failed"
    ELSE "InProgress"

TimedOut_AtDeadline(t, st, to) == t - st >= to

TimedOut_Never(t, st, to) == FALSE

TimedOut_Late(t, st, to) == t > st + to + 1

\* if time.time() - start_time > timeout   (t >= st always)
TimedOut(t, st, to) == t - st > to

\* the answer of the i-th status call
Answer(i) == results[IF i <= Len(results) THEN i ELSE Len(results)]

NoOutcome == <<"none", "">>

\* bedrock_agent.get_knowledge_base(...) / bedrock_agent.get_ingestion_job(...)
StatusOp_Stop(k) == IF k = "kb" THEN "delete_knowledge_base" ELSE "stop_ingestion_job"

StatusOp(k) == IF k = "kb" THEN "get_knowledge_base" ELSE "get_ingestion_job"

\* the arguments of the poll function: kb_id / kb_id, ds_id, job_id
Handle(k) == IF k = "kb" THEN <<1>> ELSE <<1, 2, 3>>

StatusCallError_Swallowed == <<"False", "">>

\* the status call stands in no try block: what it raises leaves the function
StatusCallError == <<"ClientError", "">>

Report_Nothing(k, lg, s) == lg

\* print(f"Knowledge Base status: {status}") / print(f"Ingestion job status: {status}")
Report(k, lg, s) ==
    Append(lg, <<IF k = "kb" THEN "Knowledge Base status: " ELSE "Ingestion job status: ", s>>)

----------------------------------------------------------------------------
(* Find-or-create: names, the remote listing, lookup *)

Sites == {"kb", "ds", "gr"}

\* knowledge_base_name, ds_name, guardrail_name
RequestedName(s) ==
    IF s = "kb" THEN "kb-auto-policy-info"
    ELSE IF s = "ds" THEN "auto-policy-info-s3-source"
    ELSE "auto-policy-claim-guardrail"

\* names of resources of the account that the scripts do not ask for
OtherNames == {"other-a", "other-b", "other-c"}

\* A resource summary of a listing: "version" is the version the listing shows
\* (guardrails; 0 is DRAFT), "nver" the number of versions created so far.
Summary(n, i) == [name |-> n, id |-> i, version |-> 0, nver |-> 0]

\* list_knowledge_bases(), list_data_sources(), list_guardrails() called once,
\* without a paginator: the first page of the listing
FirstPage(listing) == SubSeq(listing, 1, IF Len(listing) < PageSize THEN Len(listing) ELSE PageSize)

\* kb_list = [kb["name"] for kb in response[...]]
NameList(page) == {page[i].name : i \in 1..Len(page)}

\* if knowledge_base_name in kb_list / if ds_name in ds_list / if guardrail_name in gr_list
Found(page, n) == n \in NameList(page)

\* response[...][0]: the summary whose id (and version) main() takes on reuse
Reused(page) == page[1]

\* The remote platform: the id of the resource named n (0: there is none);
\* names are unique, a create call with an existing name is refused
IdNamed(listing, n) ==
    LET hits == {i \in 1..Len(listing) : listing[i].name = n}
    IN  IF hits = {} THEN 0 ELSE listing[CHOOSE i \in hits : TRUE].id

\* paginator.paginate(): page p of the listing
NumPages(listing) == (Len(listing) + PageSize - 1) \div PageSize

Page(listing, p) ==
    SubSeq(listing, (p - 1) * PageSize + 1,
           IF p * PageSize < Len(listing) THEN p * PageSize ELSE Len(listing))

\* for guardrail in page.get("guardrails", []): if guardrail["name"] == guardrail_name
FindInPage(page, n) ==
    LET hits == {i \in 1..Len(page) : page[i].name = n}
    IN  IF hits = {} THEN 0 ELSE page[CHOOSE i \in hits : \A j \in hits : i <= j].id

FindByName_FirstPage(listing, n) == FindInPage(FirstPage(listing), n)

\* create_guardrail on ConflictException: every page of the paginator, the id
\* of the first guardrail named guardrail_name (0: none, the error is raised again)
FindByName(listing, n) ==
    LET hitPages == {p \in 1..NumPages(listing) : FindInPage(Page(listing, p), n) # 0}
    IN  IF hitPages = {} THEN 0
        ELSE FindInPage(Page(listing, CHOOSE p \in hitPages : \A q \in hitPages : p <= q), n)

\* the listing with summary r put at position k
InsertAt(listing, k, r) ==
    SubSeq(listing, 1, k - 1) \o <<r>> \o SubSeq(listing, k, Len(listing))

\* the position of the resource with id i
IndexOf(listing, i) == CHOOSE k \in 1..Len(listing) : listing[k].id = i

\* the listing without the resource that has the given name
Without(listing, name) == SelectSeq(listing, LAMBDA r : r.name # name)

\* a run of main() that has not looked up anything yet (listed: the id that
\* had the requested name when create_guardrail searched the listing after a
\* conflict, 0 if none had it or no search was made)
NewRun ==
    [found |-> FALSE, existed |-> FALSE, match_id |-> 0, match_version |-> 0,
     create_calls |-> 0, conflict |-> FALSE, created |-> FALSE, listed |-> 0,
     result |-> "none", id |-> 0, version |-> 0]

----------------------------------------------------------------------------
(* Initial states *)

\* The answers of the remote up to the first one that ends the loop (a status
\* call that raises, the success status of the loop, FAILED or STOPPED): what
\* the remote would answer after it is never requested.
EndsLoop(k, a) == a \in {ClientError, "FAILED", "STOPPED"} \/ a = SuccessStatus(k)

Scripts(k) ==
    {s \in UNION {[1..n -> Answers] : n \in 1..MaxScript} :
        \A i \in 1..(Len(s) - 1) : ~EndsLoop(k, s[i])}

\* the programs that run a poll function
PollRuns == prog \in {"poll", "caller"}

\* the locals of an invocation before its first statement
FreshPoll ==
    /\ now = 0 /\ start_time = 0 /\ status = "" /\ latency = 0
    /\ calls = 0 /\ sleeps = 0 /\ observed = <<>> /\ outcome = NoOutcome
    /\ handle = Handle(kind) /\ api_calls = {} /\ log = <<>>

IdlePoll ==
    /\ kind = "kb" /\ poll_interval = 1 /\ timeout = 1 /\ results = <<"ACTIVE">>
    /\ pc = "done" /\ FreshPoll

\* two runs with an ample timeout: the remote is ready at the third status
\* call, the remote fails at the second
ScenarioScripts == {<<"CREATING", "CREATING", "ACTIVE">>, <<"CREATING", "FAILED">>}

InitPoll ==
    /\ \/ /\ kind \in {"kb", "job"}
          /\ poll_interval \in 1..MaxInterval
          /\ timeout \in 0..MaxTimeout
          /\ results \in Scripts(kind)
       \/ /\ kind = "kb"
          /\ poll_interval = 1
          /\ timeout = ScenarioTimeout
          /\ results \in ScenarioScripts
    /\ pc = "start" /\ FreshPoll

IdleEnsure ==
    /\ site = "kb" /\ remote = <<>> /\ next_id = 1 /\ externals = 0
    /\ epc = "end" /\ cur = NewRun /\ past = <<>>

\* the listings of an account: each name at most once, in any order
Listings(s) ==
    LET names == {RequestedName(s)} \cup OtherNames
        seqs == UNION {[1..n -> names] : n \in 0..Cardinality(names)}
    IN  {[i \in 1..Len(q) |-> Summary(q[i], i)] :
            q \in {x \in seqs : \A i, j \in 1..Len(x) : i # j => x[i] # x[j]}}

InitEnsure ==
    /\ site \in Sites
    /\ remote \in Listings(site)
    /\ next_id = Len(remote) + 1
    /\ externals = 0
    /\ epc = "lookup" /\ cur = NewRun /\ past = <<>>

\* polls: invocations begun; terminal_seen: an earlier invocation for the same
\* handle has ended on a terminal status (it returned True or raised
\* RuntimeError); cancelled: the caller has asked the running invocation to
\* stop, when cancel_calls status calls had been made
NoCaller == [polls |-> 0, terminal_seen |-> FALSE, cancelled |-> FALSE, cancel_calls |-> 0]

\* what the remote answers to one invocation of a caller: one status of each
\* class, or an exception, up to the first answer that ends the loop
CallerScripts(k) ==
    {s \in UNION {[1..n -> {"CREATING", SuccessStatus(k), "FAILED", ClientError}] :
                     n \in 1..CallerScript} :
        \A i \in 1..(Len(s) - 1) : ~EndsLoop(k, s[i])}

\* a caller that polls a knowledge base or an ingestion job
InitCaller ==
    /\ kind \in {"kb", "job"}
    /\ poll_interval = 1
    /\ timeout \in 1..CallerTimeout
    /\ results \in CallerScripts(kind)
    /\ pc = "start" /\ FreshPoll
    /\ caller = [NoCaller EXCEPT !.polls = 1]

\* main() of extrachallenge_knowledgebase_create.py at "Part 2": pc is the
\* step to come, kb_id / ds_id / job_id the locals (0: not assigned),
\* ds_false: ds_id is False; jobs: the ingestion jobs the data source had
\* when main() reached start_data_ingestion (their ids are 1..jobs);
\* trace: the calls made so far, in order
NoWorkflow ==
    [pc |-> "none", kb_id |-> 0, ds_id |-> 0, ds_false |-> FALSE, job_id |-> 0,
     jobs |-> 0, trace |-> <<>>]

InitMain == wf = [NoWorkflow EXCEPT !.pc = "kb"]

\* Two poll invocations in two threads of one process, thread 1 on a
\* knowledge base and thread 2 on an ingestion job. Each thread has its own
\* position in time (clock); what the remote answers to it is its own script.
ThreadScripts(k) ==
    {<<"CREATING">>, <<"CREATING", SuccessStatus(k)>>, <<"CREATING", "FAILED">>,
     <<"CREATING", ClientError>>}

\* the locals of an invocation; begun: the time at which it was entered
ThreadLocals(k, s, to, t) ==
    [kind |-> k, results |-> s, timeout |-> to, pc |-> "start", clock |-> t,
     begun |-> t, calls |-> 0, last |-> "", outcome |-> "none"]

Frame_Shared(i) == 1

\* start_time is a local variable: each invocation has its own
Frame(i) == i

InitThreads ==
    \E s1 \in ThreadScripts("kb"), s2 \in ThreadScripts("job"),
       to1 \in 1..ThreadTimeout, to2 \in 1..ThreadTimeout, d \in {0, ThreadDelay} :
        conc = [inv |-> <<ThreadLocals("kb", s1, to1, 0), ThreadLocals("job", s2, to2, d)>>,
                start_time |-> <<0, 0>>]

\* delete_vec_bucket (the definition in force, the second of the module):
\* pc is the step to come; index_exists / bucket_exists the remote resources;
\* requested the delete calls made, in order; ok_index / ok_bucket the locals
NoDelete ==
    [pc |-> "none", index_exists |-> TRUE, bucket_exists |-> TRUE, requested |-> <<>>,
     ok_index |-> FALSE, ok_bucket |-> FALSE, result |-> "none"]

\* the index may be missing already (a run repeated after a partial deletion)
InitDelete ==
    \E e \in BOOLEAN : del = [NoDelete EXCEPT !.pc = "index", !.index_exists = e]

\* main() of create_bucket_s3_vec.py, run again and again: pc is the step to
\* come; bucket / index: the vector bucket and the vector index of the
\* configured names exist remotely; crowded: the answer of list_vector_buckets
\* (one call, one page) does not reach the configured name; run: the number of
\* the run; ok_bucket: response_bucket has status 200; made_bucket: this run
\* created the bucket; result: what create_vec_bucket returned; report: what
\* main() printed after the listing
NoVec ==
    [pc |-> "none", bucket |-> FALSE, index |-> FALSE, crowded |-> FALSE, run |-> 1,
     ok_bucket |-> FALSE, made_bucket |-> FALSE, result |-> "none", report |-> "none"]

\* the account has neither resource, or has both from an earlier provisioning
InitVec ==
    \E e \in BOOLEAN, c \in BOOLEAN :
        vec = [NoVec EXCEPT !.pc = "list", !.bucket = e, !.index = e, !.crowded = c]

\* Python's None as the value of an optional argument
Absent == "None"

\* the functions of document_processor.py that invoke a model
Invokers == {"process_document", "evaluate_accuracy", "evaluate_quality"}

\* what a caller can pass as guardrail_id / guardrail_version: nothing (the
\* default None), an empty string, an id or version
GuardrailIds == {Absent, "", "gr-1"}
GuardrailVersions == {Absent, "", "1"}

\* one call of a function of Invokers: pc is the step to come; fn the
\* function; guardrail_id / guardrail_version its arguments; sent: the
\* keyword arguments of the invoke_model calls made, in order; cause: what
\* the failing step raised at its origin; result: "result" (the function
\* returned its value), Absent (it returned None) or the exception it raised
NoInvoker ==
    [pc |-> "none", fn |-> "process_document", guardrail_id |-> Absent,
     guardrail_version |-> Absent, sent |-> <<>>, cause |-> "none", result |-> "none"]

\* process_document has no guardrail parameters: its calls of invoke leave
\* the defaults
InitInvoker ==
    \E f \in Invokers, g \in GuardrailIds, v \in GuardrailVersions :
        /\ f = "process_document" => (g = Absent /\ v = Absent)
        /\ invoker = [NoInvoker EXCEPT
                        !.pc = "invoke", !.fn = f,
                        !.guardrail_id = g, !.guardrail_version = v]

\* response.get("ContentType", "").lower(): no type, PDF, two text types,
\* JSON, a binary type
ContentTypes ==
    {"", "application/pdf", "text/plain", "text/csv", "application/json",
     "application/octet-stream"}

\* how key_name.lower() ends
Suffixes == {".pdf", ".txt", ".log", ".bin"}

\* the parameter encoding: the default, or a name that is no codec
Encodings == {"utf-8", "no-such-codec"}

\* one call of get_document: pc is the step to come; content_type / suffix /
\* encoding the inputs; decodable: the bytes of the body are valid in the
\* requested encoding; branch: "pdf" or "text", the branch taken; decoded_as:
\* the codec that gave the text; cause: the exception raised at its origin;
\* result: "text" (the function returned a string) or the exception it raised
NoDoc ==
    [pc |-> "none", content_type |-> "", suffix |-> ".txt", encoding |-> "utf-8",
     decodable |-> TRUE, branch |-> "none", decoded_as |-> "none", cause |-> "none",
     result |-> "none"]

InitDoc ==
    \E c \in ContentTypes, x \in Suffixes, e \in Encodings, d \in BOOLEAN :
        doc = [NoDoc EXCEPT
                 !.pc = "fetch", !.content_type = c, !.suffix = x, !.encoding = e,
                 !.decodable = d]

\* a program that is not run has no state
IdleScripts == vec = <<>> /\ invoker = <<>> /\ doc = <<>>

IdleOthers == del = NoDelete /\ IdleScripts

Init ==
    \/ prog = "poll" /\ InitPoll /\ IdleEnsure /\ caller = NoCaller
          /\ wf = NoWorkflow /\ conc = <<>> /\ IdleOthers
    \/ prog = "ensure" /\ IdlePoll /\ InitEnsure /\ caller = NoCaller
          /\ wf = NoWorkflow /\ conc = <<>> /\ IdleOthers
    \/ prog = "caller" /\ InitCaller /\ IdleEnsure /\ wf = NoWorkflow /\ conc = <<>> /\ IdleOthers
    \/ prog = "main" /\ IdlePoll /\ IdleEnsure /\ caller = NoCaller
          /\ InitMain /\ conc = <<>> /\ IdleOthers
    \/ prog = "threads" /\ IdlePoll /\ IdleEnsure /\ caller = NoCaller
          /\ wf = NoWorkflow /\ InitThreads /\ IdleOthers
    \/ prog = "delete" /\ IdlePoll /\ IdleEnsure /\ caller = NoCaller
          /\ wf = NoWorkflow /\ conc = <<>> /\ InitDelete /\ IdleScripts
    \/ prog = "vec" /\ IdlePoll /\ IdleEnsure /\ caller = NoCaller
          /\ wf = NoWorkflow /\ conc = <<>> /\ del = NoDelete /\ InitVec
          /\ invoker = <<>> /\ doc = <<>>
    \/ prog = "invoke" /\ IdlePoll /\ IdleEnsure /\ caller = NoCaller
          /\ wf = NoWorkflow /\ conc = <<>> /\ del = NoDelete /\ vec = <<>>
          /\ InitInvoker /\ doc = <<>>
    \/ prog = "getdoc" /\ IdlePoll /\ IdleEnsure /\ caller = NoCaller
          /\ wf = NoWorkflow /\ conc = <<>> /\ del = NoDelete /\ vec = <<>>
          /\ invoker = <<>> /\ InitDoc

----------------------------------------------------------------------------
(* The poll loops: poll_knowledge_base_active, poll_data_ingestion_status *)

\* start_time = time.time()
PollStart ==
    /\ PollRuns /\ pc = "start"
    /\ start_time' = now
    /\ pc' = "call"
    /\ UNCHANGED <<prog, kind, poll_interval, timeout, results, now, status, latency,
                   calls, sleeps, observed, outcome, handle, api_calls, log,
                   notPollVars>>

\* the status call raises: the exception leaves the loop
PollRaises ==
    /\ PollRuns /\ pc = "call"
    /\ Answer(calls + 1) = ClientError
    /\ \E l \in 0..MaxLatency :
          /\ now' = now + l
          /\ latency' = l
    /\ calls' = calls + 1
    /\ api_calls' = api_calls \cup {<<StatusOp(kind), handle>>}
    /\ outcome' = StatusCallError
    /\ pc' = "done"
    /\ UNCHANGED <<prog, kind, poll_interval, timeout, results, start_time, status,
                   sleeps, observed, handle, log, notPollVars>>

\* the status call returns the success status: return True
PollSucceeds ==
    /\ PollRuns /\ pc = "call"
    /\ Answer(calls + 1) \in Statuses
    /\ Classify(kind, Answer(calls + 1)) = "Succeeded"
    /\ \E l \in 0..MaxLatency :
          /\ now' = now + l
          /\ latency' = l
    /\ calls' = calls + 1
    /\ status' = Answer(calls + 1)
    /\ observed' = Append(observed, Answer(calls + 1))
    /\ api_calls' = api_calls \cup {<<StatusOp(kind), handle>>}
    /\ outcome' = <<"True", "">>
    /\ pc' = "done"
    /\ UNCHANGED <<prog, kind, poll_interval, timeout, results, start_time, sleeps,
                   handle, log, notPollVars>>

\* the status call returns FAILED or STOPPED: raise RuntimeError(... status)
PollFails ==
    /\ PollRuns /\ pc = "call"
    /\ Answer(calls + 1) \in Statuses
    /\ Classify(kind, Answer(calls + 1)) = "Failed"
    /\ \E l \in 0..MaxLatency :
          /\ now' = now + l
          /\ latency' = l
    /\ calls' = calls + 1
    /\ status' = Answer(calls + 1)
    /\ observed' = Append(observed, Answer(calls + 1))
    /\ api_calls' = api_calls \cup {<<StatusOp(kind), handle>>}
    /\ outcome' = <<"RuntimeError", Answer(calls + 1)>>
    /\ pc' = "done"
    /\ UNCHANGED <<prog, kind, poll_interval, timeout, results, start_time, sleeps,
                   handle, log, notPollVars>>

\* any other status is printed; then the deadline check raises TimeoutError
PollTimesOut ==
    /\ PollRuns /\ pc = "call"
    /\ Answer(calls + 1) \in Statuses
    /\ Classify(kind, Answer(calls + 1)) = "InProgress"
    /\ \E l \in 0..MaxLatency :
          /\ TimedOut(now + l, start_time, timeout)
          /\ now' = now + l
          /\ latency' = l
    /\ calls' = calls + 1
    /\ status' = Answer(calls + 1)
    /\ observed' = Append(observed, Answer(calls + 1))
    /\ api_calls' = api_calls \cup {<<StatusOp(kind), handle>>}
    /\ log' = Report(kind, log, Answer(calls + 1))
    /\ outcome' = <<"TimeoutError", "">>
    /\ pc' = "done"
    /\ UNCHANGED <<prog, kind, poll_interval, timeout, results, start_time, sleeps,
                   handle, notPollVars>>

\* any other status is printed; the deadline check passes: on to time.sleep
PollContinues ==
    /\ PollRuns /\ pc = "call"
    /\ Answer(calls + 1) \in Statuses
    /\ Classify(kind, Answer(calls + 1)) = "InProgress"
    /\ \E l \in 0..MaxLatency :
          /\ ~TimedOut(now + l, start_time, timeout)
          /\ now' = now + l
          /\ latency' = l
    /\ calls' = calls + 1
    /\ status' = Answer(calls + 1)
    /\ observed' = Append(observed, Answer(calls + 1))
    /\ api_calls' = api_calls \cup {<<StatusOp(kind), handle>>}
    /\ log' = Report(kind, log, Answer(calls + 1))
    /\ pc' = "sleep"
    /\ UNCHANGED <<prog, kind, poll_interval, timeout, results, start_time, sleeps,
                   outcome, handle, notPollVars>>

\* time.sleep(poll_interval), then the next iteration of while True
PollSleeps ==
    /\ PollRuns /\ pc = "sleep"
    /\ now + poll_interval <= MaxClock
    /\ now' = now + poll_interval
    /\ sleeps' = sleeps + 1
    /\ pc' = "call"
    /\ UNCHANGED <<prog, kind, poll_interval, timeout, results, start_time, status,
                   latency, calls, observed, outcome, handle, api_calls, log,
                   notPollVars>>

PollNext ==
    \/ PollStart
    \/ PollRaises
    \/ PollSucceeds
    \/ PollFails
    \/ PollTimesOut
    \/ PollContinues
    \/ PollSleeps

----------------------------------------------------------------------------
(* A caller of the poll functions *)

\* The caller asks the running invocation to stop. The poll functions take no
\* flag, event or context and read none: the request changes nothing in them.
CallerCancels ==
    /\ prog = "caller" /\ pc \in {"call", "sleep"}
    /\ ~caller.cancelled
    /\ caller' = [caller EXCEPT !.cancelled = TRUE, !.cancel_calls = calls]
    /\ UNCHANGED <<prog, pollVars, ensureVars, wf, conc, del, vec, invoker, doc>>

\* main() is run again on the knowledge base it finds by name: it polls the
\* same kb_id with a new invocation, which knows nothing of the earlier one
PollAgain ==
    /\ prog = "caller" /\ pc = "done" /\ kind = "kb"
    /\ caller.polls < MaxPolls
    /\ results' \in CallerScripts(kind)
    /\ caller' = [polls |-> caller.polls + 1,
                  terminal_seen |-> caller.terminal_seen
                                       \/ outcome[1] \in {"True", "RuntimeError"},
                  cancelled |-> FALSE, cancel_calls |-> 0]
    /\ pc' = "start"
    /\ now' = 0 /\ start_time' = 0 /\ status' = "" /\ latency' = 0
    /\ calls' = 0 /\ sleeps' = 0 /\ observed' = <<>> /\ outcome' = NoOutcome
    /\ api_calls' = {} /\ log' = <<>>
    /\ UNCHANGED <<prog, kind, poll_interval, timeout, handle, ensureVars, wf, conc,
                   del, vec, invoker, doc>>

CallerNext == CallerCancels \/ PollAgain

----------------------------------------------------------------------------
(* main() of extrachallenge_knowledgebase_create.py, Parts 2 to 4 *)

\* how a poll function can end (the outcomes of the poll loops above)
PollOutcomes == {"True", "RuntimeError", "TimeoutError", "ClientError"}

Returns_Always(o) == TRUE

\* the poll functions return on success only; every other outcome is raised,
\* and main() calls them outside any try block
Returns(o) == o = "True"

\* one call of main(): the operation, the kb id, ds id and job id it is about
\* (0: none), its result
JobCall(op, kb, ds, job, res) ==
    [op |-> op, kb |-> kb, ds |-> ds, job |-> job, res |-> res]

Call(op, kb, ds, res) == JobCall(op, kb, ds, 0, res)

StartAccepted_Always(ds_false) == TRUE

\* bedrock_agent.start_ingestion_job(knowledgeBaseId=kb_id, dataSourceId=ds_id)
\* can start a job only if ds_id is a data source id: False is refused by the
\* validation of the parameters, before a request is sent
StartAccepted(ds_false) == ~ds_false

NewJobId_Reuse(n) == n

\* response["ingestionJob"]["ingestionJobId"]: the id of the job the call
\* started, a job the data source, which had n jobs, did not have before
NewJobId(n) == n + 1

WfUnchanged == UNCHANGED <<prog, pollVars, ensureVars, caller, conc, del, vec, invoker, doc>>

\* knowledge_base_name is in kb_list: kb_id of the first summary
WfKbReused ==
    /\ prog = "main" /\ wf.pc = "kb"
    /\ \E listing \in Listings("kb") :
          /\ Found(FirstPage(listing), RequestedName("kb"))
          /\ wf' = [wf EXCEPT
                      !.pc = "poll_kb",
                      !.kb_id = Reused(FirstPage(listing)).id,
                      !.trace = Append(@, Call("list_knowledge_bases", 0, 0, "found"))]
    /\ WfUnchanged

\* it is not: create_knowledge_base returns the id of the new knowledge base
WfKbCreated ==
    /\ prog = "main" /\ wf.pc = "kb"
    /\ \E listing \in Listings("kb") :
          /\ ~Found(FirstPage(listing), RequestedName("kb"))
          /\ wf' = [wf EXCEPT
                      !.pc = "poll_kb",
                      !.kb_id = Len(listing) + 1,
                      !.trace = @ \o <<Call("list_knowledge_bases", 0, 0, "missing"),
                                       Call("create_knowledge_base", Len(listing) + 1, 0,
                                            "created")>>]
    /\ WfUnchanged

\* it is not, and bedrock_agent.create_knowledge_base raises: main() ends
WfKbCreateFails ==
    /\ prog = "main" /\ wf.pc = "kb"
    /\ wf' = [wf EXCEPT
                !.pc = "aborted",
                !.trace = @ \o <<Call("list_knowledge_bases", 0, 0, "missing"),
                                 Call("create_knowledge_base", 0, 0, "ClientError")>>]
    /\ WfUnchanged

\* poll_knowledge_base_active(kb_id): main() goes on only if it returns
WfPollKb ==
    /\ prog = "main" /\ wf.pc = "poll_kb"
    /\ \E o \in PollOutcomes :
          wf' = [wf EXCEPT
                   !.pc = IF Returns(o) THEN "ds" ELSE "aborted",
                   !.trace = Append(@, Call("poll_knowledge_base_active", wf.kb_id, 0, o))]
    /\ WfUnchanged

\* bedrock_agent.list_data_sources(knowledgeBaseId=kb_id) raises: main() ends
WfDsListFails ==
    /\ prog = "main" /\ wf.pc = "ds"
    /\ wf' = [wf EXCEPT
                !.pc = "aborted",
                !.trace = Append(@, Call("list_data_sources", wf.kb_id, 0, "ClientError"))]
    /\ WfUnchanged

\* ds_name is in ds_list: ds_id of the first summary
WfDsReused ==
    /\ prog = "main" /\ wf.pc = "ds"
    /\ \E listing \in Listings("ds") :
          /\ Found(FirstPage(listing), RequestedName("ds"))
          /\ wf' = [wf EXCEPT
                      !.pc = "ingest",
                      !.ds_id = Reused(FirstPage(listing)).id,
                      !.trace = Append(@, Call("list_data_sources", wf.kb_id,
                                               Reused(FirstPage(listing)).id, "found"))]
    /\ WfUnchanged

\* it is not: create_data_source returns the id of the new data source
WfDsCreated ==
    /\ prog = "main" /\ wf.pc = "ds"
    /\ \E listing \in Listings("ds") :
          /\ ~Found(FirstPage(listing), RequestedName("ds"))
          /\ wf' = [wf EXCEPT
                      !.pc = "ingest",
                      !.ds_id = Len(listing) + 1,
                      !.trace = @ \o <<Call("list_data_sources", wf.kb_id, 0, "missing"),
                                       Call("create_data_source", wf.kb_id,
                                            Len(listing) + 1, "created")>>]
    /\ WfUnchanged

\* it is not, and create_data_source catches a ClientError: ds_id = False
WfDsCreateFails ==
    /\ prog = "main" /\ wf.pc = "ds"
    /\ wf' = [wf EXCEPT
                !.pc = "ingest",
                !.ds_false = TRUE,
                !.trace = @ \o <<Call("list_data_sources", wf.kb_id, 0, "missing"),
                                 Call("create_data_source", wf.kb_id, 0, "False")>>]
    /\ WfUnchanged

\* start_data_ingestion(kb_id, ds_id) returns the id of the job it started
WfIngestStarts ==
    /\ prog = "main" /\ wf.pc = "ingest"
    /\ StartAccepted(wf.ds_false)
    /\ \E n \in 0..MaxJobs :
          wf' = [wf EXCEPT
                   !.pc = "poll_job",
                   !.jobs = n,
                   !.job_id = NewJobId(n),
                   !.trace = Append(@, JobCall("start_ingestion_job", wf.kb_id,
                                               wf.ds_id, NewJobId(n), "started"))]
    /\ WfUnchanged

\* bedrock_agent.start_ingestion_job raises (always so when ds_id is False,
\* which is no data source id): main() ends
WfIngestFails ==
    /\ prog = "main" /\ wf.pc = "ingest"
    /\ wf' = [wf EXCEPT
                !.pc = "aborted",
                !.trace = Append(@, Call("start_ingestion_job", wf.kb_id, wf.ds_id,
                                         "error"))]
    /\ WfUnchanged

\* poll_data_ingestion_status(kb_id, ds_id, job_id, poll_interval=5)
WfPollJob ==
    /\ prog = "main" /\ wf.pc = "poll_job"
    /\ \E o \in PollOutcomes :
          wf' = [wf EXCEPT
                   !.pc = IF Returns(o) THEN "end" ELSE "aborted",
                   !.trace = Append(@, JobCall("poll_data_ingestion_status",
                                               wf.kb_id, wf.ds_id, wf.job_id, o))]
    /\ WfUnchanged

MainNext ==
    \/ WfKbReused
    \/ WfKbCreated
    \/ WfKbCreateFails
    \/ WfPollKb
    \/ WfDsListFails
    \/ WfDsReused
    \/ WfDsCreated
    \/ WfDsCreateFails
    \/ WfIngestStarts
    \/ WfIngestFails
    \/ WfPollJob

----------------------------------------------------------------------------
(* Two poll invocations in two threads: poll_interval is 1 in both *)

ThreadUnchanged == UNCHANGED <<prog, pollVars, ensureVars, caller, wf, del, vec, invoker, doc>>

\* the answer of the c-th status call of a thread whose script is s
ScriptAnswer(s, c) == s[IF c <= Len(s) THEN c ELSE Len(s)]

\* start_time = time.time()
ThreadStarts(i) ==
    /\ prog = "threads" /\ conc.inv[i].pc = "start"
    /\ conc' = [conc EXCEPT !.inv[i].pc = "call",
                            !.start_time[Frame(i)] = conc.inv[i].clock]
    /\ ThreadUnchanged

\* one status call and what the if / elif / else chain and the deadline check
\* make of its answer
ThreadCalls(i) ==
    /\ prog = "threads" /\ conc.inv[i].pc = "call"
    /\ \E l \in 0..MaxLatency :
          LET me == conc.inv[i]
              a == ScriptAnswer(me.results, me.calls + 1)
              t == me.clock + l
              end == IF a = ClientError THEN "ClientError"
                     ELSE IF Classify(me.kind, a) = "Succeeded" THEN "True"
                     ELSE IF Classify(me.kind, a) = "Failed" THEN "RuntimeError"
                     ELSE IF TimedOut(t, conc.start_time[Frame(i)], me.timeout)
                     THEN "TimeoutError"
                     ELSE "none"
          IN  conc' = [conc EXCEPT
                         !.inv[i].clock = t,
                         !.inv[i].calls = @ + 1,
                         !.inv[i].last = IF a = ClientError THEN @ ELSE a,
                         !.inv[i].outcome = end,
                         !.inv[i].pc = IF end = "none" THEN "sleep" ELSE "done"]
    /\ ThreadUnchanged

\* time.sleep(poll_interval)
ThreadSleeps(i) ==
    /\ prog = "threads" /\ conc.inv[i].pc = "sleep"
    /\ conc.inv[i].clock + 1 <= MaxClock
    /\ conc' = [conc EXCEPT !.inv[i].clock = @ + 1, !.inv[i].pc = "call"]
    /\ ThreadUnchanged

ThreadsNext == \E i \in {1, 2} : ThreadStarts(i) \/ ThreadCalls(i) \/ ThreadSleeps(i)

----------------------------------------------------------------------------
(* delete_vec_bucket of delete_resources.py *)

DelUnchanged == UNCHANGED <<prog, pollVars, ensureVars, caller, wf, conc, vec, invoker, doc>>

\* response["ResponseMetadata"]["HTTPStatusCode"] == 200
Ok(code) == code = "200"

\* What a delete call that returns can answer, and whether the resource is
\* gone then: with 200 it is; with another status returned without an
\* exception (the case of the [WARN] branch) the code cannot tell.
Responses == {<<"200", TRUE>>, <<"other", TRUE>>, <<"other", FALSE>>}

\* s3v_client.delete_index(...) returns
DelIndexReturns ==
    /\ prog = "delete" /\ del.pc = "index"
    /\ del.index_exists
    /\ \E r \in Responses :
          del' = [del EXCEPT
                    !.pc = "bucket",
                    !.requested = Append(@, "delete_index"),
                    !.index_exists = ~r[2],
                    !.ok_index = Ok(r[1])]
    /\ DelUnchanged

\* s3v_client.delete_index(...) raises: except ClientError: return False
DelIndexRaises ==
    /\ prog = "delete" /\ del.pc = "index"
    /\ del' = [del EXCEPT
                 !.pc = "done",
                 !.requested = Append(@, "delete_index"),
                 !.result = "False"]
    /\ DelUnchanged

\* s3v_client.delete_vector_bucket(...) returns (a bucket that still holds
\* an index is not deleted); then if ok_index and ok_bucket: return True,
\* else the warning and return False
DelBucketReturns ==
    /\ prog = "delete" /\ del.pc = "bucket"
    /\ ~del.index_exists
    /\ \E r \in Responses :
          del' = [del EXCEPT
                    !.pc = "done",
                    !.requested = Append(@, "delete_vector_bucket"),
                    !.bucket_exists = ~r[2],
                    !.ok_bucket = Ok(r[1]),
                    !.result = IF del.ok_index /\ Ok(r[1]) THEN "True" ELSE "False"]
    /\ DelUnchanged

\* s3v_client.delete_vector_bucket(...) raises: except ClientError: return False
DelBucketRaises ==
    /\ prog = "delete" /\ del.pc = "bucket"
    /\ del' = [del EXCEPT
                 !.pc = "done",
                 !.requested = Append(@, "delete_vector_bucket"),
                 !.result = "False"]
    /\ DelUnchanged

DeleteNext == DelIndexReturns \/ DelIndexRaises \/ DelBucketReturns \/ DelBucketRaises

----------------------------------------------------------------------------
(* Find-or-create in main(): knowledge base, data source, guardrail *)

\* the name is in the first page: the id (and version) of response[...][0]
LookupReuses ==
    /\ prog = "ensure" /\ epc = "lookup"
    /\ Found(FirstPage(remote), RequestedName(site))
    /\ cur' = [cur EXCEPT
                 !.found = TRUE,
                 !.existed = TRUE,
                 !.match_id = IdNamed(remote, RequestedName(site)),
                 !.match_version =
                     remote[IndexOf(remote, IdNamed(remote, RequestedName(site)))].version,
                 !.result = "handle",
                 !.id = Reused(FirstPage(remote)).id,
                 !.version = IF site = "gr" THEN Reused(FirstPage(remote)).version ELSE 0]
    /\ epc' = "end"
    /\ UNCHANGED <<prog, pollVars, otherVars, site, remote, next_id, externals, past>>

\* the name is not in the first page: the else branch, on to the create call
LookupMisses ==
    /\ prog = "ensure" /\ epc = "lookup"
    /\ ~Found(FirstPage(remote), RequestedName(site))
    /\ cur' = [cur EXCEPT
                 !.found = FALSE,
                 !.existed = IdNamed(remote, RequestedName(site)) # 0,
                 !.match_id = IdNamed(remote, RequestedName(site))]
    /\ epc' = "create"
    /\ UNCHANGED <<prog, pollVars, otherVars, site, remote, next_id, externals, past>>

\* create_knowledge_base / create_data_source / create_guardrail: the remote
\* creates the resource and answers its id
CreateSucceeds ==
    /\ prog = "ensure" /\ epc = "create"
    /\ IdNamed(remote, RequestedName(site)) = 0
    /\ \E k \in 1..(Len(remote) + 1) :
          remote' = InsertAt(remote, k, Summary(RequestedName(site), next_id))
    /\ next_id' = next_id + 1
    /\ cur' = [cur EXCEPT
                 !.create_calls = @ + 1,
                 !.created = TRUE,
                 !.id = next_id,
                 !.result = IF site = "gr" THEN "none" ELSE "handle"]
    /\ epc' = IF site = "gr" THEN "version" ELSE "end"
    /\ UNCHANGED <<prog, pollVars, otherVars, site, externals, past>>

\* the create call is refused because the name exists (ConflictException):
\*   create_knowledge_base has no handler: the ClientError leaves main();
\*   create_data_source prints the error and returns False;
\*   create_guardrail searches the listing by name and returns that id, and
\*   raises the error again when there is none.
CreateConflicts ==
    /\ prog = "ensure" /\ epc = "create"
    /\ IdNamed(remote, RequestedName(site)) # 0
    /\ LET hit == FindByName(remote, RequestedName(site))
       IN  /\ cur' = [cur EXCEPT
                        !.create_calls = @ + 1,
                        !.conflict = TRUE,
                        !.listed = IF site = "gr"
                                   THEN IdNamed(remote, RequestedName(site)) ELSE 0,
                        !.id = IF site = "gr" THEN hit ELSE 0,
                        !.result = IF site = "kb" THEN "ClientError"
                                   ELSE IF site = "ds" THEN "False"
                                   ELSE IF hit = 0 THEN "ClientError"
                                   ELSE "none"]
           /\ epc' = IF site = "gr" /\ hit # 0 THEN "version" ELSE "end"
    /\ UNCHANGED <<prog, pollVars, otherVars, site, remote, next_id, externals, past>>

\* create_guardrail is refused because the name exists, and by the time the
\* handler reads the listing another actor has deleted that guardrail: no
\* page holds the name, the loops end and the bare raise raises the
\* ClientError of the create call again
CreateConflictsGone ==
    /\ prog = "ensure" /\ epc = "create" /\ site = "gr"
    /\ IdNamed(remote, RequestedName(site)) # 0
    /\ externals < MaxExternal
    /\ externals' = externals + 1
    /\ remote' = Without(remote, RequestedName(site))
    /\ LET hit == FindByName(remote', RequestedName(site))
       IN  /\ cur' = [cur EXCEPT
                        !.create_calls = @ + 1,
                        !.conflict = TRUE,
                        !.id = hit,
                        !.result = IF hit = 0 THEN "ClientError" ELSE "none"]
           /\ epc' = IF hit # 0 THEN "version" ELSE "end"
    /\ UNCHANGED <<prog, pollVars, otherVars, site, next_id, past>>

\* create_guardrail is refused because the name exists, and a list_guardrails
\* call of the paginator raises inside the handler: that ClientError leaves
\* create_guardrail
CreateConflictListFails ==
    /\ prog = "ensure" /\ epc = "create" /\ site = "gr"
    /\ IdNamed(remote, RequestedName(site)) # 0
    /\ cur' = [cur EXCEPT
                 !.create_calls = @ + 1,
                 !.conflict = TRUE,
                 !.result = "ClientError in list_guardrails"]
    /\ epc' = "end"
    /\ UNCHANGED <<prog, pollVars, otherVars, site, remote, next_id, externals, past>>

\* the create call fails with another client error (access denied, validation):
\* raised by create_knowledge_base and create_guardrail, False from create_data_source
CreateDenied ==
    /\ prog = "ensure" /\ epc = "create"
    /\ cur' = [cur EXCEPT
                 !.create_calls = @ + 1,
                 !.result = IF site = "ds" THEN "False" ELSE "ClientError"]
    /\ epc' = "end"
    /\ UNCHANGED <<prog, pollVars, otherVars, site, remote, next_id, externals, past>>

\* create_guardrail_version(guardrail_id): the remote numbers the new version;
\* the listing goes on showing the version it showed or shows the new one
CreateVersion ==
    /\ prog = "ensure" /\ epc = "version"
    /\ LET k == IndexOf(remote, cur.id)
           v == remote[k].nver + 1
       IN  /\ \E shown \in {remote[k].version, v} :
                 remote' = [remote EXCEPT ![k].nver = v, ![k].version = shown]
           /\ cur' = [cur EXCEPT !.version = v, !.result = "handle"]
    /\ epc' = "end"
    /\ UNCHANGED <<prog, pollVars, otherVars, site, next_id, externals, past>>

\* create_guardrail_version raises a client error: main() has no handler
CreateVersionFails ==
    /\ prog = "ensure" /\ epc = "version"
    /\ cur' = [cur EXCEPT !.result = "ClientError in create_guardrail_version"]
    /\ epc' = "end"
    /\ UNCHANGED <<prog, pollVars, otherVars, site, remote, next_id, externals, past>>

\* another actor creates a resource with the requested name while main() runs
ExternalCreates ==
    /\ prog = "ensure" /\ epc \in {"lookup", "create"}
    /\ externals < MaxExternal
    /\ IdNamed(remote, RequestedName(site)) = 0
    /\ \E k \in 1..(Len(remote) + 1) :
          remote' = InsertAt(remote, k, Summary(RequestedName(site), next_id))
    /\ next_id' = next_id + 1
    /\ externals' = externals + 1
    /\ UNCHANGED <<prog, pollVars, otherVars, site, epc, cur, past>>

\* the script is run again
NextRun ==
    /\ prog = "ensure" /\ epc = "end"
    /\ Len(past) + 1 < MaxRuns
    /\ past' = Append(past, cur)
    /\ cur' = NewRun
    /\ epc' = "lookup"
    /\ UNCHANGED <<prog, pollVars, otherVars, site, remote, next_id, externals>>

EnsureNext ==
    \/ LookupReuses
    \/ LookupMisses
    \/ CreateSucceeds
    \/ CreateConflicts
    \/ CreateConflictsGone
    \/ CreateConflictListFails
    \/ CreateDenied
    \/ CreateVersion
    \/ CreateVersionFails
    \/ ExternalCreates
    \/ NextRun

----------------------------------------------------------------------------
(* create_bucket_s3_vec.py: main() and create_vec_bucket *)

VecUnchanged == UNCHANGED <<prog, pollVars, ensureVars, caller, wf, conc, del, invoker, doc>>

\* what a create call can answer: a response with status 200, a response
\* with another status, a ClientError
CreateAnswers == {"200", "other", ClientError}

\* create_vec_bucket after both create calls have returned: True when both
\* responses have status 200; otherwise the function falls off its end
Returned(ok_bucket, ok_index) == IF ok_bucket /\ ok_index THEN "True" ELSE "None"

\* s3v_client.list_vector_buckets() raises: main() has no handler
VecListRaises ==
    /\ prog = "vec" /\ vec.pc = "list"
    /\ vec' = [vec EXCEPT !.pc = "end", !.result = ClientError]
    /\ VecUnchanged

\* vec_bucket_name in vec_bucket_list: the two messages, no creation
VecListsFound ==
    /\ prog = "vec" /\ vec.pc = "list"
    /\ vec.bucket /\ ~vec.crowded
    /\ vec' = [vec EXCEPT !.pc = "end", !.report = "exists", !.result = "skipped"]
    /\ VecUnchanged

\* it is not: the other two messages, then create_vec_bucket
VecListsMissing ==
    /\ prog = "vec" /\ vec.pc = "list"
    /\ ~(vec.bucket /\ ~vec.crowded)
    /\ vec' = [vec EXCEPT !.pc = "create_bucket", !.report = "creating"]
    /\ VecUnchanged

\* s3v_client.create_vector_bucket returns: with status 200 the bucket is
\* there; with another status the code cannot tell
VecBucketReturns ==
    /\ prog = "vec" /\ vec.pc = "create_bucket"
    /\ ~vec.bucket
    /\ \E a \in CreateAnswers \ {ClientError}, made \in BOOLEAN :
          /\ Ok(a) => made
          /\ vec' = [vec EXCEPT
                       !.pc = "create_index",
                       !.bucket = made,
                       !.made_bucket = made,
                       !.ok_bucket = Ok(a)]
    /\ VecUnchanged

\* s3v_client.create_vector_bucket raises (always so when the bucket exists):
\* except ClientError: return False
VecBucketRaises ==
    /\ prog = "vec" /\ vec.pc = "create_bucket"
    /\ vec' = [vec EXCEPT !.pc = "end", !.result = "False"]
    /\ VecUnchanged

\* s3v_client.create_index returns, then the test of the two status codes
VecIndexReturns ==
    /\ prog = "vec" /\ vec.pc = "create_index"
    /\ vec.bucket /\ ~vec.index
    /\ \E a \in CreateAnswers \ {ClientError}, made \in BOOLEAN :
          /\ Ok(a) => made
          /\ vec' = [vec EXCEPT
                       !.pc = "end",
                       !.index = made,
                       !.result = Returned(vec.ok_bucket, Ok(a))]
    /\ VecUnchanged

\* s3v_client.create_index raises (always so when there is no bucket):
\* except ClientError: return False
VecIndexRaises ==
    /\ prog = "vec" /\ vec.pc = "create_index"
    /\ vec' = [vec EXCEPT !.pc = "end", !.result = "False"]
    /\ VecUnchanged

\* the script is run again: the remote resources stay as they are
VecNextRun ==
    /\ prog = "vec" /\ vec.pc = "end"
    /\ vec.run < MaxVecRuns
    /\ vec' = [NoVec EXCEPT
                 !.pc = "list",
                 !.bucket = vec.bucket,
                 !.index = vec.index,
                 !.crowded = vec.crowded,
                 !.run = vec.run + 1]
    /\ VecUnchanged

VecNext ==
    \/ VecListRaises
    \/ VecListsFound
    \/ VecListsMissing
    \/ VecBucketReturns
    \/ VecBucketRaises
    \/ VecIndexReturns
    \/ VecIndexRaises
    \/ VecNextRun

----------------------------------------------------------------------------
(* BedrockRuntimeInvokeManager.invoke and its callers in document_processor.py *)

InvokerUnchanged ==
    UNCHANGED <<prog, pollVars, ensureVars, caller, wf, conc, del, vec, doc>>

\* the truth value Python gives an optional string argument
Truthy(x) == x \notin {Absent, ""}

\* invoke: the guardrail keyword arguments of the invoke_model call, set under
\* `if guardrail_id and guardrail_version`, absent otherwise
Kwargs(guardrail_id, guardrail_version) ==
    IF Truthy(guardrail_id) /\ Truthy(guardrail_version)
    THEN [guardrailIdentifier |-> guardrail_id, guardrailVersion |-> guardrail_version]
    ELSE [guardrailIdentifier |-> Absent, guardrailVersion |-> Absent]

\* what self.client.invoke_model can raise: a ClientError (an error answer of
\* the service) or an error of the library that is no ClientError
InvokeErrors == {ClientError, "BotoCoreError"}

Converted_Keep(exc) == exc

\* invoke: except ClientError as e: raise RuntimeError(...) from e; any other
\* exception passes through
Converted(exc) == IF exc = ClientError THEN "RuntimeError" ELSE exc

\* the callers: except ClientError as e: ... return None
Caught(exc) == exc = ClientError

\* how the function ends when a step raises exc
Ending(exc) == IF Caught(exc) THEN Absent ELSE exc

\* process_document invokes the model twice (extraction, summary), the
\* evaluate functions once
Invocations(fn) == IF fn = "process_document" THEN 2 ELSE 1

\* invoke returns the response and the caller reads its body:
\* json.loads(response["body"].read()) and the "content" of it
ModelAnswers ==
    /\ prog = "invoke" /\ invoker.pc = "invoke"
    /\ LET last == Len(invoker.sent) + 1 = Invocations(invoker.fn)
       IN  invoker' = [invoker EXCEPT
                         !.sent = Append(@, Kwargs(invoker.guardrail_id,
                                                   invoker.guardrail_version)),
                         !.pc = IF last THEN "done" ELSE "invoke",
                         !.result = IF last THEN "result" ELSE "none"]
    /\ InvokerUnchanged

\* invoke returns the response and its body is not the JSON the caller
\* expects: json.loads or the subscript raises
ModelAnswerUnreadable ==
    /\ prog = "invoke" /\ invoker.pc = "invoke"
    /\ invoker' = [invoker EXCEPT
                     !.sent = Append(@, Kwargs(invoker.guardrail_id,
                                               invoker.guardrail_version)),
                     !.pc = "done",
                     !.cause = "ParseError",
                     !.result = Ending("ParseError")]
    /\ InvokerUnchanged

\* self.client.invoke_model raises
ModelCallFails ==
    /\ prog = "invoke" /\ invoker.pc = "invoke"
    /\ \E exc \in InvokeErrors :
          invoker' = [invoker EXCEPT
                        !.sent = Append(@, Kwargs(invoker.guardrail_id,
                                                  invoker.guardrail_version)),
                        !.pc = "done",
                        !.cause = exc,
                        !.result = Ending(Converted(exc))]
    /\ InvokerUnchanged

InvokerNext == ModelAnswers \/ ModelAnswerUnreadable \/ ModelCallFails

----------------------------------------------------------------------------
(* get_document of get_doc_from_s3_gp.py *)

DocUnchanged ==
    UNCHANGED <<prog, pollVars, ensureVars, caller, wf, conc, del, vec, invoker>>

\* is_pdf
IsPdf(content_type, suffix) == content_type = "application/pdf" \/ suffix = ".pdf"

\* content_type.startswith("text/")
StartsWithText(content_type) == content_type \in {"text/plain", "text/csv"}

\* is_text_like
IsTextLike(content_type, suffix) ==
    \/ StartsWithText(content_type)
    \/ content_type \in {"application/json", "text/csv"}
    \/ suffix \in {".txt", ".csv", ".json", ".log"}

\* the exceptions of the model that are subclasses of Exception (all of them)
Exceptions ==
    {ClientError, "BotoCoreError", "PdfReadError", "RuntimeError", "ValueError",
     "LookupError"}

Wrapped_ClientOnly(exc) == IF exc = ClientError THEN "RuntimeError" ELSE exc

\* the two handlers of the outer try: except ClientError raises RuntimeError
\* ("S3 error ..."), except Exception raises RuntimeError ("Failed to extract
\* document content ...")
Wrapped(exc) ==
    IF exc = ClientError THEN "RuntimeError"
    ELSE IF exc \in Exceptions THEN "RuntimeError"
    ELSE exc

\* s3_client.get_object or response["Body"].read() raises
DocReadFails ==
    /\ prog = "getdoc" /\ doc.pc = "fetch"
    /\ \E exc \in {ClientError, "BotoCoreError"} :
          doc' = [doc EXCEPT !.pc = "done", !.cause = exc, !.result = Wrapped(exc)]
    /\ DocUnchanged

\* the body is read and the type of the object determined
DocReadReturns ==
    /\ prog = "getdoc" /\ doc.pc = "fetch"
    /\ doc' = [doc EXCEPT !.pc = "extract"]
    /\ DocUnchanged

\* if is_pdf: the text of the pages joined
DocPdfExtracted ==
    /\ prog = "getdoc" /\ doc.pc = "extract"
    /\ IsPdf(doc.content_type, doc.suffix)
    /\ doc' = [doc EXCEPT !.pc = "done", !.branch = "pdf", !.result = "text"]
    /\ DocUnchanged

\* if is_pdf: PdfReader raises and the inner handler raises RuntimeError
\* ("Failed to open PDF document"), or page.extract_text() raises; either
\* exception then meets the handlers of the outer try
DocPdfUnreadable ==
    /\ prog = "getdoc" /\ doc.pc = "extract"
    /\ IsPdf(doc.content_type, doc.suffix)
    /\ \E exc \in {"RuntimeError", "PdfReadError"} :
          doc' = [doc EXCEPT
                    !.pc = "done", !.branch = "pdf", !.cause = "PdfReadError",
                    !.result = Wrapped(exc)]
    /\ DocUnchanged

\* if is_text_like: body.decode(encoding), on UnicodeDecodeError
\* body.decode("latin-1"), which decodes any bytes; a name that is no codec
\* makes decode raise LookupError, which the inner handler does not catch
DocTextDecoded ==
    /\ prog = "getdoc" /\ doc.pc = "extract"
    /\ ~IsPdf(doc.content_type, doc.suffix)
    /\ IsTextLike(doc.content_type, doc.suffix)
    /\ doc' = IF doc.encoding = "no-such-codec"
              THEN [doc EXCEPT
                      !.pc = "done", !.branch = "text", !.cause = "LookupError",
                      !.result = Wrapped("LookupError")]
              ELSE [doc EXCEPT
                      !.pc = "done", !.branch = "text", !.result = "text",
                      !.decoded_as = IF doc.decodable THEN doc.encoding ELSE "latin-1"]
    /\ DocUnchanged

\* neither: raise ValueError("Unsupported content type ..."), inside the
\* outer try
DocUnsupported ==
    /\ prog = "getdoc" /\ doc.pc = "extract"
    /\ ~IsPdf(doc.content_type, doc.suffix)
    /\ ~IsTextLike(doc.content_type, doc.suffix)
    /\ doc' = [doc EXCEPT
                 !.pc = "done", !.cause = "ValueError", !.result = Wrapped("ValueError")]
    /\ DocUnchanged

DocNext ==
    \/ DocReadFails
    \/ DocReadReturns
    \/ DocPdfExtracted
    \/ DocPdfUnreadable
    \/ DocTextDecoded
    \/ DocUnsupported

Next == PollNext \/ EnsureNext \/ CallerNext \/ MainNext \/ ThreadsNext
    \/ DeleteNext \/ VecNext \/ InvokerNext \/ DocNext

Spec == Init /\ [][Next]_vars

FairSpec == Spec /\ WF_vars(Next)

----------------------------------------------------------------------------
(* Vocabulary of the properties of the poll loops *)

\* a status that is neither the success status of the loop nor a failure status
IsInProgress(k, s) ==
    /\ s \in Statuses
    /\ s # (IF k = "kb" THEN "ACTIVE" ELSE "COMPLETE")
    /\ s \notin {"FAILED", "STOPPED"}

Polling == prog = "poll"

PollEnded == prog = "poll" /\ pc = "done"

Elapsed == now - start_time

\* the remote answers in-progress statuses and then, for good, the success status
ProgressThenSuccess ==
    /\ results[Len(results)] = (IF kind = "kb" THEN "ACTIVE" ELSE "COMPLETE")
    /\ \A i \in 1..(Len(results) - 1) : IsInProgress(kind, results[i])

\* the remote answers in-progress statuses for ever
AlwaysInProgress == \A i \in 1..Len(results) : IsInProgress(kind, results[i])

\* no status call has taken any time: all the time elapsed was spent in sleeps
ZeroLatency == Elapsed = sleeps * poll_interval

\* the status call made last returned an in-progress status
LastInProgress ==
    /\ observed # <<>>
    /\ Len(observed) = calls
    /\ IsInProgress(kind, observed[Len(observed)])

----------------------------------------------------------------------------
(* C1 as stated: for every sequence of in-progress results followed by the
   success status the poll function returns True after one status call per
   result of the sequence. *)
C1_Original ==
    (PollEnded /\ ProgressThenSuccess) =>
        (outcome[1] = "True" /\ calls = Len(results))

(* C1, amended: for every sequence of k in-progress results followed by the
   success status the poll function either returns True, having made exactly
   k+1 status calls (one per result, k sleeps, none after the success), or the
   deadline check fired at one of the in-progress observations and it ended
   with TimeoutError after at most k status calls, with more than timeout
   elapsed. *)
C1_SuccessUnlessTimedOut ==
    (PollEnded /\ ProgressThenSuccess) =>
        \/ /\ outcome = <<"True", "">>
           /\ calls = Len(results)
           /\ observed = results
           /\ sleeps = Len(results) - 1
        \/ /\ outcome = <<"TimeoutError", "">>
           /\ calls < Len(results)
           /\ observed = SubSeq(results, 1, calls)
           /\ Elapsed > timeout

C1_Witness ==
    /\ PollEnded /\ ProgressThenSuccess
    /\ Len(results) = 3
    /\ outcome[1] = "True" /\ calls = 3 /\ sleeps = 2

(* C2: whenever a status call returns FAILED or STOPPED, that observation is
   the last one: the invocation has ended with RuntimeError carrying that
   status, with no status call and no sleep after it (k in-progress
   observations before it give k+1 calls and k sleeps). *)
C2_FailureEndsAtOnce ==
    Polling =>
        \A i \in 1..Len(observed) :
            observed[i] \in {"FAILED", "STOPPED"} =>
                /\ i = Len(observed)
                /\ pc = "done"
                /\ outcome = <<"RuntimeError", observed[i]>>
                /\ calls = i
                /\ sleeps = i - 1

C2_Witness ==
    /\ PollEnded
    /\ Len(observed) = 3 /\ observed[3] = "STOPPED"
    /\ outcome = <<"RuntimeError", "STOPPED">>
    /\ calls = 3 /\ sleeps = 2

(* C3 as stated: every status call answers in-progress, timeout is
   5 * poll_interval and status calls take no time: the invocation ends with
   TimeoutError after at most 6 status calls. *)
C3_Original ==
    (PollEnded /\ AlwaysInProgress /\ timeout = 5 * poll_interval /\ ZeroLatency) =>
        (outcome[1] = "TimeoutError" /\ calls <= 6)

(* C3, amended: every status call answers in-progress and timeout is
   5 * poll_interval: the invocation ends with TimeoutError after at most 7
   status calls, and after exactly 7 (6 sleeps) when status calls take no
   time, because the sixth observation is made at elapsed = timeout, which
   does not exceed timeout. *)
C3_TimeoutAfterSevenCalls ==
    (PollEnded /\ AlwaysInProgress /\ timeout = 5 * poll_interval) =>
        /\ outcome[1] = "TimeoutError"
        /\ calls <= 7
        /\ ZeroLatency => (calls = 7 /\ sleeps = 6)

C3_Witness ==
    /\ PollEnded /\ AlwaysInProgress /\ timeout = 5 * poll_interval /\ ZeroLatency
    /\ outcome[1] = "TimeoutError" /\ calls = 7

(* C4: after an in-progress observation the elapsed time is compared with
   timeout before any sleep: if it exceeds timeout the invocation has ended
   with TimeoutError, without a sleep and without a further status call; a
   sleep is begun only with elapsed <= timeout, and TimeoutError is raised
   only after an in-progress observation. *)
C4_DeadlineCheckedBeforeSleep ==
    Polling =>
        /\ (LastInProgress /\ pc = "done") =>
              /\ outcome = <<"TimeoutError", "">>
              /\ Elapsed > timeout
              /\ sleeps = calls - 1
        /\ (LastInProgress /\ pc = "sleep") =>
              /\ Elapsed <= timeout
              /\ sleeps = calls - 1
        /\ (LastInProgress /\ pc = "call") =>
              /\ Elapsed - poll_interval <= timeout
              /\ sleeps = calls
        /\ pc = "sleep" => LastInProgress
        /\ outcome[1] = "TimeoutError" => (LastInProgress /\ pc = "done")

C4_Witness ==
    /\ PollEnded /\ LastInProgress
    /\ outcome[1] = "TimeoutError"
    /\ calls = 3 /\ sleeps = 2 /\ Elapsed > timeout

(* C5: as long as no terminal status has been observed, the time elapsed
   since the start is at most timeout + poll_interval plus the latency of the
   status call made last; in particular an invocation that ends with
   TimeoutError overruns timeout by at most one poll_interval plus the
   latency of one status call. *)
C5_OverrunBound ==
    (Polling /\ outcome[1] \in {"none", "TimeoutError"}) =>
        Elapsed <= timeout + poll_interval + latency

C5_Witness ==
    /\ PollEnded /\ outcome[1] = "TimeoutError"
    /\ latency > 0
    /\ Elapsed = timeout + poll_interval + latency

(* C6: every poll invocation eventually ends, also when the remote status
   stays in progress for ever. *)
C6_PollTerminates == Polling ~> (pc = "done" /\ outcome[1] # "none")

C6_Witness ==
    /\ PollEnded /\ AlwaysInProgress
    /\ outcome[1] = "TimeoutError"
    /\ poll_interval > 1 /\ calls > 1

----------------------------------------------------------------------------
(* Vocabulary of the properties of find-or-create *)

Ensuring == prog = "ensure"

\* the runs of main() that have ended, oldest first
EndedRuns == IF epc = "end" THEN Append(past, cur) ELSE past

NamesUnique ==
    \A i, j \in 1..Len(remote) : i # j => remote[i].name # remote[j].name

(* C7 as stated: the create call is made if and only if no existing remote
   resource has the requested name when the listing is looked up, never before
   the lookup and at most once per run, and no two resources share a name. *)
C7_Original ==
    Ensuring =>
        /\ epc = "lookup" => cur.create_calls = 0
        /\ NamesUnique
        /\ \A i \in 1..Len(EndedRuns) :
              /\ EndedRuns[i].create_calls <= 1
              /\ EndedRuns[i].create_calls = 1 <=> ~EndedRuns[i].existed

(* C8 as stated: when the lookup finds the requested name, the handle that
   main() goes on with is the id (and, for a guardrail, the version) of the
   resource that has that name. *)
C8_Original ==
    Ensuring =>
        \A i \in 1..Len(EndedRuns) :
            EndedRuns[i].found =>
                /\ EndedRuns[i].result = "handle"
                /\ EndedRuns[i].id = EndedRuns[i].match_id
                /\ EndedRuns[i].version = (IF site = "gr" THEN EndedRuns[i].match_version ELSE 0)

(* C9 as stated: the first run found nothing and created the resource, the
   lookup of the second run finds the name with that resource in the listing:
   both runs have the same handle and one create call was made in all. *)
C9_Original ==
    (Ensuring /\ Len(EndedRuns) >= 2) =>
        LET r1 == EndedRuns[1]
            r2 == EndedRuns[2]
        IN  (~r1.found /\ r1.created /\ r1.result = "handle"
                /\ r2.found /\ r2.match_id = r1.id) =>
                /\ r2.result = "handle"
                /\ r2.id = r1.id
                /\ r2.version = r1.version
                /\ r1.create_calls + r2.create_calls = 1

(* C10 as stated, for the guardrail: a create call refused because the name
   exists, after a lookup made when no resource had that name (the resource
   was created between the lookup and the create call), ends the run with the
   client error and without a handle. *)
C10_Original ==
    (Ensuring /\ site = "gr") =>
        \A i \in 1..Len(EndedRuns) :
            (~EndedRuns[i].found /\ ~EndedRuns[i].existed /\ EndedRuns[i].conflict) =>
                (EndedRuns[i].result = "ClientError" /\ EndedRuns[i].id = 0)

(* C10, amended: in the guardrail script a create call refused because the
   name exists, after a lookup that found nothing, does not end the run with
   a conflict error: create_guardrail searches every page of the listing and
   returns the id of the guardrail that has the requested name, without
   creating one, and main() goes on to create_guardrail_version with that id
   (a handle of that id and the new version, unless that call fails); the
   client error of the create call reaches the caller only when no page holds
   the name. *)
C10_ConflictRecovered ==
    (Ensuring /\ site = "gr") =>
        \A i \in 1..Len(EndedRuns) :
            (~EndedRuns[i].found /\ EndedRuns[i].conflict) =>
                \/ /\ EndedRuns[i].id # 0
                   /\ EndedRuns[i].id = EndedRuns[i].listed
                   /\ ~EndedRuns[i].created
                   /\ EndedRuns[i].create_calls = 1
                   /\ \/ EndedRuns[i].result = "handle" /\ EndedRuns[i].version >= 1
                      \/ EndedRuns[i].result = "ClientError in create_guardrail_version"
                \/ /\ EndedRuns[i].result = "ClientError"
                   /\ EndedRuns[i].id = 0
                   /\ EndedRuns[i].listed = 0
                \/ /\ EndedRuns[i].result = "ClientError in list_guardrails"
                   /\ EndedRuns[i].id = 0

C10_Witness ==
    /\ Ensuring /\ site = "gr" /\ epc = "end"
    /\ ~cur.found /\ ~cur.existed /\ cur.conflict
    /\ cur.result = "handle"
    /\ Len(remote) > PageSize
    /\ remote[Len(remote)].id = cur.id

(* C11: a status call that raises is not swallowed and not retried: it is the
   last call of the invocation, which has ended at once with the client error
   as its outcome, after one sleep per earlier observation and none after the
   error, and without an observation recorded for the failed call. *)
C11_StatusErrorPropagates ==
    Polling =>
        \A i \in 1..calls :
            Answer(i) = "ClientError" =>
                /\ i = calls
                /\ pc = "done"
                /\ outcome = <<"ClientError", "">>
                /\ Len(observed) = i - 1
                /\ sleeps = i - 1

C11_Witness ==
    /\ PollEnded
    /\ calls = 3 /\ Answer(3) = "ClientError"
    /\ outcome[1] = "ClientError" /\ sleeps = 2

\* the status the status call made last has returned
LastObserved == observed[Len(observed)]

C13_OutcomeMatches ==
    Polling =>
        /\ outcome[1] \in {"none", "True", "RuntimeError", "TimeoutError", "ClientError"}
        /\ pc = "done" <=> outcome[1] # "none"
        /\ outcome[1] \in {"True", "RuntimeError", "TimeoutError"} =>
              (observed # <<>> /\ calls = Len(observed))
        /\ outcome[1] = "True" =>
              LastObserved = (IF kind = "kb" THEN "ACTIVE" ELSE "COMPLETE")
        /\ outcome[1] = "RuntimeError" =>
              (LastObserved \in {"FAILED", "STOPPED"} /\ outcome[2] = LastObserved)
        /\ outcome[1] = "TimeoutError" =>
              (IsInProgress(kind, LastObserved) /\ Elapsed > timeout)

C13_EndIsFinal ==
    (Polling /\ pc = "done") =>
        (pc' = "done" /\ outcome' = outcome /\ calls' = calls /\ sleeps' = sleeps
            /\ api_calls' = api_calls)

(* C13: a poll invocation has no outcome while it runs and exactly one when
   it has ended, and the outcome matches the observation made last: True only
   after the success status, RuntimeError only after FAILED or STOPPED (which
   it carries), TimeoutError only after an in-progress status with more than
   timeout elapsed; the only other outcome is the error of a status call that
   raised. Once ended, the invocation takes no step and issues no call. *)
C13_ExactlyOneOutcome == []C13_OutcomeMatches /\ [][C13_EndIsFinal]_vars

C13_Witness ==
    /\ PollEnded /\ kind = "job"
    /\ outcome = <<"RuntimeError", "FAILED">>
    /\ calls = 2 /\ observed[1] = "DELETING"

\* the in-progress observations that were followed by another status call
FollowedObservations ==
    {i \in 1..Len(observed) : IsInProgress(kind, observed[i]) /\ i < calls}

\* the observations so far are in-progress statuses and then one terminal status
ProgressThenTerminal ==
    /\ observed # <<>>
    /\ ~IsInProgress(kind, LastObserved)
    /\ \A i \in 1..(Len(observed) - 1) : IsInProgress(kind, observed[i])

C14_SleepsCounted ==
    Polling =>
        /\ pc \in {"sleep", "done"} => sleeps = Cardinality(FollowedObservations)
        /\ pc = "call" => sleeps = calls
        /\ ProgressThenTerminal =>
              /\ pc = "done"
              /\ calls = Len(observed)
              /\ sleeps = Len(observed) - 1
        /\ (PollEnded /\ poll_interval = 1 /\ timeout = ScenarioTimeout) =>
              /\ results = <<"CREATING", "CREATING", "ACTIVE">> =>
                    (outcome = <<"True", "">> /\ calls = 3 /\ sleeps = 2)
              /\ results = <<"CREATING", "FAILED">> =>
                    (outcome = <<"RuntimeError", "FAILED">> /\ calls = 2 /\ sleeps = 1)

C14_SleepStep ==
    (Polling /\ sleeps' # sleeps) =>
        /\ sleeps' = sleeps + 1
        /\ now' = now + poll_interval
        /\ calls' = calls
        /\ IsInProgress(kind, LastObserved)

(* C14: the sleeps of a poll invocation are as many as its in-progress
   observations that were followed by another status call; observations that
   are k in-progress statuses and then a terminal status come with k+1 status
   calls and k sleeps, each of poll_interval and each after an in-progress
   observation, none after the terminal one. With poll_interval 1 and
   timeout 10, [CREATING, CREATING, ACTIVE] ends with True after 3 calls and
   2 sleeps, [CREATING, FAILED] with RuntimeError after 2 calls and 1 sleep. *)
C14_SleepsMatchObservations == []C14_SleepsCounted /\ [][C14_SleepStep]_vars

C14_Witness ==
    /\ PollEnded /\ timeout = ScenarioTimeout /\ poll_interval = 1
    /\ results = <<"CREATING", "CREATING", "ACTIVE">>
    /\ outcome[1] = "True" /\ calls = 3 /\ sleeps = 2 /\ Elapsed > 2

\* the remote operations that only read the status of a resource
StatusReads == {"get_knowledge_base", "get_ingestion_job"}

\* the handle the invocation was given
GivenHandle == IF kind = "kb" THEN <<1>> ELSE <<1, 2, 3>>

C15_OnlyStatusReads ==
    Polling =>
        /\ handle = GivenHandle
        /\ \A c \in api_calls : c[1] \in StatusReads /\ c[2] = GivenHandle
        /\ Cardinality(api_calls) = (IF calls = 0 THEN 0 ELSE 1)

C15_ReadStep ==
    Polling =>
        /\ handle' = handle
        /\ results' = results
        /\ \A c \in api_calls' \ api_calls : c[1] \in StatusReads /\ calls' = calls + 1

(* C15: whatever its outcome, TimeoutError included, a poll invocation has
   issued no remote call but status reads (get_knowledge_base or
   get_ingestion_job) of the resource it was given: no call deletes, stops or
   re-creates the resource, what the remote answers is not changed by the
   invocation, and the handle is unchanged. *)
C15_TimeoutIsClientSide == []C15_OnlyStatusReads /\ [][C15_ReadStep]_vars

C15_Witness ==
    /\ PollEnded /\ kind = "job"
    /\ outcome[1] = "TimeoutError" /\ calls = 2
    /\ api_calls = {<<"get_ingestion_job", <<1, 2, 3>>>>}
    /\ handle = <<1, 2, 3>>

\* the in-progress statuses observed so far, in order
ProgressObserved == SelectSeq(observed, LAMBDA s : IsInProgress(kind, s))

C16_ProgressReported ==
    Polling =>
        /\ Len(log) = Len(ProgressObserved)
        /\ \A i \in 1..Len(log) :
              /\ log[i][2] = ProgressObserved[i]
              /\ log[i][1] = (IF kind = "kb" THEN "Knowledge Base status: "
                              ELSE "Ingestion job status: ")

\* one step of the same loop with the print statement taken out
SilentLoopStep ==
    LET a == Answer(calls + 1)
    IN  \/ /\ pc = "start" /\ pc' = "call" /\ start_time' = now
           /\ UNCHANGED <<now, calls, sleeps, observed, outcome>>
        \/ /\ pc = "call" /\ calls' = calls + 1 /\ now' >= now
           /\ UNCHANGED <<sleeps, start_time>>
           /\ IF a = "ClientError"
              THEN pc' = "done" /\ outcome' = <<"ClientError", "">> /\ observed' = observed
              ELSE /\ observed' = Append(observed, a)
                   /\ IF a = (IF kind = "kb" THEN "ACTIVE" ELSE "COMPLETE")
                      THEN pc' = "done" /\ outcome' = <<"True", "">>
                      ELSE IF a \in {"FAILED", "STOPPED"}
                      THEN pc' = "done" /\ outcome' = <<"RuntimeError", a>>
                      ELSE IF now' - start_time > timeout
                      THEN pc' = "done" /\ outcome' = <<"TimeoutError", "">>
                      ELSE pc' = "sleep" /\ outcome' = outcome
        \/ /\ pc = "sleep" /\ pc' = "call"
           /\ now' = now + poll_interval /\ sleeps' = sleeps + 1
           /\ UNCHANGED <<calls, observed, outcome, start_time>>

C16_ControlAsIfSilent == Polling => SilentLoopStep

(* C16: what a poll loop has printed is, in order, one line per in-progress
   observation, made of the fixed prefix of the loop and the raw status; a
   status that ends the loop is not printed; and every step of the loop is a
   step of the same loop without the print statement: status calls, sleeps
   and outcome are what they would be with nothing reported. *)
C16_ProgressLogIsPassive == []C16_ProgressReported /\ [][C16_ControlAsIfSilent]_vars

C16_Witness ==
    /\ PollEnded /\ kind = "kb"
    /\ observed = <<"CREATING", "DELETING", "ACTIVE">>
    /\ log = <<<<"Knowledge Base status: ", "CREATING">>,
               <<"Knowledge Base status: ", "DELETING">>>>
    /\ outcome[1] = "True"

----------------------------------------------------------------------------
(* Vocabulary of the properties of a caller of the poll functions *)

Calling == prog = "caller"

\* an earlier invocation has read a terminal status for this handle
TerminalReadBefore == caller.terminal_seen

(* C18 as stated: once a status read for a handle has returned a terminal
   status, a later read of the same handle that returns an in-progress status
   is not treated as progress (no sleep follows it) and the invocation ends
   with an unexpected-state failure. *)
C18_Original ==
    (Calling /\ TerminalReadBefore /\ observed # <<>>
        /\ IsInProgress(kind, LastObserved)) =>
        (pc = "done" /\ outcome[1] = "UnexpectedState")

(* C19 as stated: a cancellation request is seen at the next sleep boundary at
   the latest, so that after the request the loop issues at most the status
   call of the iteration in progress and none after it. *)
C19_Original ==
    (Calling /\ caller.cancelled) => calls <= caller.cancel_calls + 1

----------------------------------------------------------------------------
(* Vocabulary of the properties of the provisioning workflow *)

InMain == prog = "main"

\* the calls of main() that come after the poll of the knowledge base
LaterSteps ==
    {"list_data_sources", "create_data_source", "start_ingestion_job",
     "poll_data_ingestion_status"}

(* C12: in main() every data-source lookup, data-source creation and start of
   an ingestion job is about a knowledge-base id for which
   poll_knowledge_base_active has returned True earlier in the run; a poll of
   the knowledge base that ends with RuntimeError, TimeoutError or the error of
   a status call is the last call of main(). *)
C12_LaterStepsAfterSuccess ==
    /\ PollEnded => outcome[1] \in PollOutcomes
    /\ InMain =>
          \A i \in 1..Len(wf.trace) :
              /\ wf.trace[i].op \in LaterSteps =>
                    \E j \in 1..(i - 1) :
                        /\ wf.trace[j].op = "poll_knowledge_base_active"
                        /\ wf.trace[j].res = "True"
                        /\ wf.trace[j].kb = wf.trace[i].kb
              /\ (wf.trace[i].op = "poll_knowledge_base_active"
                      /\ wf.trace[i].res # "True") =>
                    (i = Len(wf.trace) /\ wf.pc = "aborted")

C12_Witness ==
    /\ InMain /\ wf.pc = "poll_job"
    /\ wf.kb_id = 1 /\ wf.ds_id = 3
    /\ \E i \in 1..Len(wf.trace) :
          wf.trace[i] = [op |-> "poll_knowledge_base_active", kb |-> 1, ds |-> 0,
                         job |-> 0, res |-> "True"]
    /\ wf.trace[Len(wf.trace)].op = "start_ingestion_job"

----------------------------------------------------------------------------
(* Vocabulary of the properties of concurrent poll invocations *)

InThreads == prog = "threads"

\* what the invocation of thread i must be at, given only its own status
\* sequence, start time, poll interval and timeout
OwnInputsDecide(i) ==
    LET me == conc.inv[i]
        elapsed == me.clock - me.begun
        answer == me.results[IF me.calls <= Len(me.results) THEN me.calls
                             ELSE Len(me.results)]
    IN  /\ me.pc = "done" <=> me.outcome # "none"
        /\ me.pc \in {"sleep", "done"} =>
              /\ me.calls > 0
              /\ me.outcome = "ClientError" <=> answer = "ClientError"
              /\ me.outcome # "ClientError" => me.last = answer
        /\ me.outcome = "True" =>
              me.last = (IF me.kind = "kb" THEN "ACTIVE" ELSE "COMPLETE")
        /\ me.outcome = "RuntimeError" => me.last \in {"FAILED", "STOPPED"}
        /\ me.outcome = "TimeoutError" =>
              (IsInProgress(me.kind, me.last) /\ elapsed > me.timeout)
        /\ me.pc = "sleep" =>
              (IsInProgress(me.kind, me.last) /\ elapsed <= me.timeout)

C17_EachByItsOwn == InThreads => (OwnInputsDecide(1) /\ OwnInputsDecide(2))

C17_OneThreadPerStep ==
    InThreads =>
        \A i \in {1, 2} :
            conc'.inv[i] # conc.inv[i] =>
                /\ conc'.inv[3 - i] = conc.inv[3 - i]
                /\ conc'.start_time[3 - i] = conc.start_time[3 - i]

(* C17: two poll invocations that run in two threads, under every
   interleaving of their steps: the state and outcome of each is what its own
   status sequence, start time, poll interval and timeout decide, and a step
   of one changes neither the locals nor the start_time of the other. *)
C17_NoInterference == []C17_EachByItsOwn /\ [][C17_OneThreadPerStep]_vars

C17_Witness ==
    /\ InThreads
    /\ conc.inv[1].outcome = "TimeoutError" /\ conc.inv[1].calls = 2
    /\ conc.inv[2].outcome = "True" /\ conc.inv[2].begun = 1
    /\ conc.start_time = <<0, 1>>

----------------------------------------------------------------------------
(* Vocabulary of the properties of delete_vec_bucket *)

Deleted == prog = "delete" /\ del.pc = "done"

(* C20 as stated: delete_vec_bucket returns True if both the index and the
   bucket are gone and False otherwise; it requests the deletion of the index
   first, and when the index is still there after that request it has not
   requested the deletion of the bucket. *)
C20_Original ==
    Deleted =>
        /\ del.result \in {"True", "False"}
        /\ del.result = "True" <=> (~del.index_exists /\ ~del.bucket_exists)
        /\ del.requested \in {<<"delete_index">>, <<"delete_index", "delete_vector_bucket">>}
        /\ del.index_exists => del.requested = <<"delete_index">>

----------------------------------------------------------------------------
(* Status classification, as the loops act on it *)

\* the class the claim gives to status s read by the poll function of kind k
ClassOf(k, s) ==
    IF s \in {"FAILED", "STOPPED"} THEN "Failed"
    ELSE IF k = "kb" /\ s = "ACTIVE" THEN "Succeeded"
    ELSE IF k = "job" /\ s = "COMPLETE" THEN "Succeeded"
    ELSE "InProgress"

\* the class the loop has treated its i-th observation as: it returned True,
\* raised RuntimeError, or took the else branch (print, deadline check)
TreatedAs(i) ==
    IF i < Len(observed) THEN "InProgress"
    ELSE IF outcome[1] = "True" THEN "Succeeded"
    ELSE IF outcome[1] = "RuntimeError" THEN "Failed"
    ELSE "InProgress"

(* C22: every status a poll loop reads is treated as exactly one class, the
   same whenever it is read: FAILED and STOPPED as Failed by both loops,
   ACTIVE as Succeeded by the knowledge-base loop, COMPLETE as Succeeded by
   the ingestion-job loop, every other status (the success status of the
   other loop, DELETING, CREATING) as InProgress: one line of the progress
   log per observation treated as InProgress. *)
C22_ClassificationTotal ==
    Polling =>
        /\ \A i \in 1..Len(observed) : TreatedAs(i) = ClassOf(kind, observed[i])
        /\ Len(log) = Cardinality({i \in 1..Len(observed) :
                                      ClassOf(kind, observed[i]) = "InProgress"})

C22_Witness ==
    /\ PollEnded /\ kind = "job"
    /\ observed = <<"ACTIVE", "DELETING", "COMPLETE">>
    /\ outcome[1] = "True" /\ Len(log) = 2

(* C23: a poll invocation has no outcome before its first status call,
   whatever timeout and poll_interval are (timeout 0 included), and a status
   call that returns the success status, or FAILED or STOPPED, ends it with
   True, or with RuntimeError carrying that status, also when more than
   timeout has elapsed by then: TimeoutError follows an in-progress status
   only. *)
C23_TerminalBeforeDeadline ==
    Polling =>
        /\ outcome[1] # "none" => calls >= 1
        /\ pc \in {"start", "call"} /\ calls = 0 => outcome[1] = "none"
        /\ (observed # <<>> /\ calls = Len(observed)) =>
              /\ LastObserved = (IF kind = "kb" THEN "ACTIVE" ELSE "COMPLETE") =>
                    (pc = "done" /\ outcome = <<"True", "">>)
              /\ LastObserved \in {"FAILED", "STOPPED"} =>
                    (pc = "done" /\ outcome = <<"RuntimeError", LastObserved>>)

C23_Witness ==
    /\ PollEnded /\ timeout = 0
    /\ observed = <<"CREATING", "ACTIVE">>
    /\ Elapsed > timeout + poll_interval
    /\ outcome[1] = "True"

----------------------------------------------------------------------------
(* Vocabulary of the properties of the ingestion step of main() *)

\* the entries of the trace made by the given operation with the given result
Entries(op, res) ==
    {i \in 1..Len(wf.trace) : wf.trace[i].op = op /\ wf.trace[i].res = res}

\* the starts of an ingestion job that the remote accepted
Started == Entries("start_ingestion_job", "started")

\* entry j is where the remote platform issued a data source id to main()
IssuesDataSource(j) ==
    \/ wf.trace[j].op = "list_data_sources" /\ wf.trace[j].res = "found"
    \/ wf.trace[j].op = "create_data_source" /\ wf.trace[j].res = "created"

(* C24: in main() every ingestion job that is started is started with the
   data source id that an earlier list_data_sources found or an earlier
   create_data_source returned, for the same knowledge base; in a run in which
   create_data_source failed (ds_id is False) no ingestion job is started and
   the ingestion poll is not reached. *)
C24_StartedWithIssuedId ==
    InMain =>
        /\ \A i \in Started :
              /\ wf.trace[i].ds # 0
              /\ \E j \in 1..(i - 1) :
                    /\ IssuesDataSource(j)
                    /\ wf.trace[j].ds = wf.trace[i].ds
                    /\ wf.trace[j].kb = wf.trace[i].kb
        /\ Entries("create_data_source", "False") # {} =>
              /\ Started = {}
              /\ wf.job_id = 0
              /\ wf.pc \in {"ingest", "aborted"}

C24_Witness ==
    /\ InMain /\ wf.pc = "aborted" /\ wf.ds_false
    /\ Entries("create_data_source", "False") # {}
    /\ wf.trace[Len(wf.trace)].op = "start_ingestion_job"
    /\ wf.trace[Len(wf.trace)].res = "error"

\* main() has got past the data-source step and has made its call of
\* start_data_ingestion
PastIngestStep ==
    /\ InMain /\ wf.pc \in {"poll_job", "end", "aborted"}
    /\ \E j \in 1..Len(wf.trace) : wf.trace[j].op \in {"list_data_sources", "create_data_source"}
    /\ wf.trace[Len(wf.trace)].op \in {"start_ingestion_job", "poll_data_ingestion_status"}

\* entry i polls the job that entry i - 1 started: same knowledge base, same
\* data source, same job
PollsStartedJob(i) ==
    /\ i - 1 \in Started
    /\ wf.trace[i].kb = wf.trace[i - 1].kb
    /\ wf.trace[i].ds = wf.trace[i - 1].ds
    /\ wf.trace[i].job = wf.trace[i - 1].job

\* C27 as stated: every run that has got past the data-source step has
\* started exactly one ingestion job
C27_Original ==
    PastIngestStep => Cardinality(Started) = 1

(* C27: a run of main() that gets past the data-source step calls
   start_ingestion_job exactly once. If the call returns, it has started
   exactly one job, whose id is none of the ids of the jobs the data source
   had before (also when the knowledge base and the data source were reused),
   and the ingestion poll that follows is given the knowledge-base id, the
   data-source id and the job id of that start. If the call raises, no job is
   started, nothing is polled and main() ends there. *)
C27_OneStartThenItsPoll ==
    InMain =>
        /\ Cardinality({i \in 1..Len(wf.trace) :
                           wf.trace[i].op = "start_ingestion_job"})
              = (IF PastIngestStep THEN 1 ELSE 0)
        /\ \A i \in Started :
              /\ wf.trace[i].job \notin 0..wf.jobs
              /\ wf.trace[i].job = wf.job_id
              /\ wf.trace[i].kb = wf.kb_id
              /\ wf.trace[i].ds = wf.ds_id
        /\ \A i \in 1..Len(wf.trace) :
              /\ wf.trace[i].op = "poll_data_ingestion_status" =>
                    (i > 1 /\ PollsStartedJob(i))
              /\ (wf.trace[i].op = "start_ingestion_job" /\ wf.trace[i].res = "error") =>
                    (i = Len(wf.trace) /\ wf.pc = "aborted")
        /\ wf.pc = "poll_job" => Len(wf.trace) \in Started
        /\ wf.pc = "end" =>
              wf.trace[Len(wf.trace)].op = "poll_data_ingestion_status"

C27_Witness ==
    /\ InMain /\ wf.pc = "end"
    /\ wf.trace[1].res = "found"
    /\ Entries("list_data_sources", "found") # {}
    /\ wf.jobs = MaxJobs
    /\ wf.trace[Len(wf.trace)] =
          [op |-> "poll_data_ingestion_status", kb |-> wf.kb_id, ds |-> wf.ds_id,
           job |-> MaxJobs + 1, res |-> "True"]

----------------------------------------------------------------------------
(* Vocabulary of the properties of create_guardrail *)

\* the runs of the guardrail script in which create_guardrail has ended: the
\* ended runs and the run that is at create_guardrail_version
GuardrailCalls ==
    LET all == IF epc \in {"version", "end"} THEN Append(past, cur) ELSE past
    IN  {i \in 1..Len(all) : all[i].create_calls = 1}

GuardrailCall(i) == IF i <= Len(past) THEN past[i] ELSE cur

\* create_guardrail ended by raising a client error
Raised(r) == r.id = 0 /\ r.result \in {"ClientError", "ClientError in list_guardrails"}

(* C26: every call of create_guardrail either returns an id, and then the id
   of a guardrail that has the configured name (the one just created, or after
   a conflict the one the listing holds under that name, on whatever page), or
   raises a client error; it raises exactly when the create call failed
   without a conflict, when after a conflict no page of the listing holds the
   name, or when the listing itself raises; it never returns without an id,
   and when it has just returned, the guardrail of the returned id has the
   configured name. *)
C26_IdOrRaise ==
    (Ensuring /\ site = "gr") =>
        /\ \A i \in GuardrailCalls :
              LET r == GuardrailCall(i)
              IN  /\ (r.id # 0) # Raised(r)
                  /\ r.created => (r.id # 0 /\ ~r.conflict)
                  /\ (r.conflict /\ r.listed # 0) => r.id = r.listed
                  /\ (r.conflict /\ r.listed = 0) => Raised(r)
                  /\ (~r.conflict /\ ~r.created) => r.result = "ClientError"
        /\ epc = "version" =>
              /\ cur.id # 0
              /\ \E k \in 1..Len(remote) :
                    remote[k].id = cur.id /\ remote[k].name = RequestedName("gr")

C26_Witness ==
    /\ Ensuring /\ site = "gr" /\ epc = "end"
    /\ cur.conflict /\ cur.listed = 0 /\ cur.id = 0
    /\ cur.result = "ClientError"
    /\ \A k \in 1..Len(remote) : remote[k].name # RequestedName("gr")
    /\ Len(past) = 1 /\ past[1].conflict /\ past[1].id # 0

----------------------------------------------------------------------------
(* Vocabulary of the properties of the vector-bucket script *)

InVec == prog = "vec"

\* create_vec_bucket was called in the run and has ended
VecCreateEnded == InVec /\ vec.pc = "end" /\ vec.report = "creating"

\* C21 as stated: for every combination of answers of the two create calls
\* create_vec_bucket returns True or False, and True whenever the bucket was
\* created
C21_Original ==
    VecCreateEnded =>
        /\ vec.result \in {"True", "False"}
        /\ vec.made_bucket => vec.result = "True"

\* C25 as stated: whenever a run reports that the vector bucket and the
\* vector index already exist, and skips the creation, both exist remotely
C25_Original ==
    (InVec /\ vec.report = "exists") => (vec.bucket /\ vec.index)

----------------------------------------------------------------------------
(* Vocabulary of the properties of the model invocation *)

Invoking == prog = "invoke"

\* the guardrail was passed to the i-th invoke_model call
GuardrailSent(i) ==
    /\ invoker.sent[i].guardrailIdentifier = invoker.guardrail_id
    /\ invoker.sent[i].guardrailVersion = invoker.guardrail_version
    /\ invoker.sent[i].guardrailIdentifier # "None"

\* neither guardrail argument was passed to the i-th invoke_model call
GuardrailLeftOut(i) ==
    /\ invoker.sent[i].guardrailIdentifier = "None"
    /\ invoker.sent[i].guardrailVersion = "None"

\* a client error of invoke_model ends the function with RuntimeError, and
\* the function never returns None
NoneNeverReturned ==
    /\ invoker.result # "None"
    /\ invoker.cause = "ClientError" =>
          (invoker.pc = "done" /\ invoker.result = "RuntimeError")
    /\ (invoker.pc = "done" /\ invoker.cause \in {"none", "ClientError"}) =>
          invoker.result \in {"result", "RuntimeError"}

\* C28 as stated: no client error makes the functions return None, and the
\* guardrail is passed if and only if both arguments are given
C28_Original ==
    Invoking =>
        /\ NoneNeverReturned
        /\ \A i \in 1..Len(invoker.sent) :
              IF invoker.guardrail_id # "None" /\ invoker.guardrail_version # "None"
              THEN GuardrailSent(i)
              ELSE GuardrailLeftOut(i)

(* C28: a client error of invoke_model never makes process_document,
   evaluate_accuracy or evaluate_quality return None: invoke raises
   RuntimeError for it, which they do not catch, so after a model call that
   answered or failed with a client error each of them has returned its
   result or ended with RuntimeError; and invoke passes the guardrail
   identifier and version to invoke_model if and only if both are given and
   neither is empty, and passes neither of them otherwise. *)
C28_ClientErrorIsRuntimeError ==
    Invoking =>
        /\ NoneNeverReturned
        /\ \A i \in 1..Len(invoker.sent) :
              IF invoker.guardrail_id \notin {"None", ""}
                    /\ invoker.guardrail_version \notin {"None", ""}
              THEN GuardrailSent(i)
              ELSE GuardrailLeftOut(i)

C28_Witness ==
    /\ Invoking /\ invoker.pc = "done"
    /\ invoker.fn = "evaluate_accuracy"
    /\ invoker.guardrail_id = "" /\ invoker.guardrail_version = "1"
    /\ invoker.cause = "ClientError" /\ invoker.result = "RuntimeError"
    /\ Len(invoker.sent) = 1 /\ GuardrailLeftOut(1)

----------------------------------------------------------------------------
(* Vocabulary of the properties of get_document *)

InDoc == prog = "getdoc"

DocEnded == InDoc /\ doc.pc = "done"

\* the object is recognised as PDF: by its content type or by its key
LooksPdf == doc.content_type = "application/pdf" \/ doc.suffix = ".pdf"

\* the object matches a text type: by its content type or by its key
LooksText ==
    \/ doc.content_type \in {"text/plain", "text/csv", "application/json"}
    \/ doc.suffix \in {".txt", ".log"}

\* the call ended by returning text or by raising RuntimeError; every failure
\* (S3 client error, unreadable PDF, unsupported type) is a RuntimeError
TextOrRuntimeError ==
    /\ doc.result \in {"text", "RuntimeError"}
    /\ doc.cause # "none" <=> doc.result = "RuntimeError"
    /\ (doc.branch = "none" /\ doc.cause \notin {"ClientError", "BotoCoreError"}) =>
          (~LooksPdf /\ ~LooksText /\ doc.cause = "ValueError")

\* an object recognised as PDF is handled as PDF, whatever else it matches
PdfFirst ==
    /\ (LooksPdf /\ doc.branch # "none") => doc.branch = "pdf"
    /\ doc.branch = "text" => (LooksText /\ ~LooksPdf)

\* C29 as stated: a text-like object always decodes
C29_Original ==
    DocEnded =>
        /\ TextOrRuntimeError
        /\ PdfFirst
        /\ doc.branch = "text" =>
              /\ doc.result = "text"
              /\ doc.decoded_as = (IF doc.decodable THEN doc.encoding ELSE "latin-1")

(* C29: get_document either returns the document text or ends with a
   RuntimeError, for every outcome of the S3 read and every object type: an
   S3 client error, an unreadable PDF and an unsupported content type all
   reach the caller as RuntimeError and no other error type escapes; an object
   recognised as PDF is handled as PDF even when it also matches a text type;
   and a text-like object decodes whenever the requested encoding names a
   codec (in that encoding if the bytes are valid in it, in latin-1 if not),
   while an encoding that names no codec ends the call with RuntimeError. *)
C29_TextOrRuntimeError ==
    DocEnded =>
        /\ TextOrRuntimeError
        /\ PdfFirst
        /\ doc.branch = "text" =>
              IF doc.encoding = "utf-8"
              THEN /\ doc.result = "text"
                   /\ doc.decoded_as = (IF doc.decodable THEN "utf-8" ELSE "latin-1")
              ELSE doc.result = "RuntimeError" /\ doc.cause = "LookupError"

C29_Witness ==
    /\ DocEnded
    /\ doc.content_type = "text/plain" /\ doc.suffix = ".pdf"
    /\ doc.branch = "pdf"
    /\ doc.cause = "PdfReadError" /\ doc.result = "RuntimeError"

====
